---- MODULE Spec2Model ----
(***************************************************************************)
(* Model of the unused-secret reporter: src/src/k8s.py (the secret-usage   *)
(* resolution) and src/main.py (the loop over the namespaces).             *)
(*                                                                         *)
(* Python values are modelled as follows.  An optional value is a sequence *)
(* of length 0 (None) or 1 (the value).  A name is a string; the empty     *)
(* string stands for an absent or empty name (both are falsy in Python).   *)
(* A call that may raise returns a record [raised, error, value].          *)
(***************************************************************************)
EXTENDS Naturals, Sequences, FiniteSets, TLC

VARIABLES
    pc,               \* position of the running program
    namespaces,       \* main: the list returned by list_all_namespaces
    idx,              \* main: number of namespaces already handled
    listings,         \* the API responses of the namespace being scanned
    all_used_secrets, \* list_unused_secrets_in_namespace: its accumulator
    main_secrets,     \* main: its local secrets, the set returned for the namespace
    printed,          \* main: what has been printed, one record per namespace
    used_log,         \* history: the used-secret set of every finished scan
    pod_template,     \* the argument of _get_used_secrets_in_pod_spec
    used_secrets,     \* the result of _get_used_secrets_in_pod_spec
    cluster,          \* the namespace as it is now, while a scan of it runs
    fetched,          \* the listings the running scan has fetched so far
    refs_at_call,     \* history: per listing call, the names its kind referenced then
    always_referenced,\* history: the names some scanned kind referenced at every instant
    edits             \* number of changes made to the namespace during the scan

mainVars == <<namespaces, idx, listings, printed, used_log>>
extractVars == <<pod_template, used_secrets>>
liveVars == <<cluster, fetched, refs_at_call, always_referenced, edits>>
vars == <<pc, all_used_secrets, main_secrets, mainVars, extractVars, liveVars>>

----------------------------------------------------------------------------
(* Python values *)

None == <<>>
Some(x) == <<x>>
IsSome(o) == o # <<>>
Val(o) == o[1]

\* Truth value of an optional list: None and [] are both falsy.
Truthy(l) == IsSome(l) /\ Val(l) # <<>>

\* Truth value of a name: None and "" are both falsy.
NoName == ""
TruthyName(n) == n # NoName

Ok(v) == [raised |-> FALSE, error |-> "", value |-> v]
Raise(e, v) == [raised |-> TRUE, error |-> e, value |-> v]

\* str.startswith
StartsWith(s, p) == Len(s) >= Len(p) /\ SubSeq(s, 1, Len(p)) = p

----------------------------------------------------------------------------
(* _get_used_secrets_in_container *)

RECURSIVE EnvLoop(_, _)
EnvLoop(env, used) ==
    IF env = <<>> THEN used
    ELSE LET e == Head(env) IN
         EnvLoop(Tail(env),
                 IF IsSome(e.value_from) /\ IsSome(Val(e.value_from).secret_key_ref)
                 THEN used \cup {Val(Val(e.value_from).secret_key_ref).name}
                 ELSE used)

RECURSIVE EnvFromLoop(_, _)
EnvFromLoop(env_from, used) ==
    IF env_from = <<>> THEN used
    ELSE LET e == Head(env_from) IN
         EnvFromLoop(Tail(env_from),
                     IF IsSome(e.secret_ref) /\ TruthyName(Val(e.secret_ref).name)
                     THEN used \cup {Val(e.secret_ref).name}
                     ELSE used)

\* As VolumeMountLoop, with every mount name taken for a secret name.
RECURSIVE VolumeMountLoopAdds(_, _)
VolumeMountLoopAdds(volume_mounts, used) ==
    IF volume_mounts = <<>> THEN used
    ELSE VolumeMountLoopAdds(Tail(volume_mounts), used \cup {Head(volume_mounts).name})

RECURSIVE VolumeMountLoop(_, _)
VolumeMountLoop(volume_mounts, used) ==
    IF volume_mounts = <<>> THEN used
    ELSE LET m == Head(volume_mounts) IN
         VolumeMountLoop(Tail(volume_mounts),
                         IF m.name \in used THEN used \cup {m.name} ELSE used)

GetUsedSecretsInContainer(container) ==
    LET u0 == {}
        u1 == IF Truthy(container.env) THEN EnvLoop(Val(container.env), u0) ELSE u0
        u2 == IF Truthy(container.env_from)
              THEN EnvFromLoop(Val(container.env_from), u1) ELSE u1
        u3 == IF Truthy(container.volume_mounts)
              THEN VolumeMountLoop(Val(container.volume_mounts), u2) ELSE u2
    IN  u3

----------------------------------------------------------------------------
(* _get_used_secrets_in_pod_spec *)

RECURSIVE VolumeLoop(_, _)
VolumeLoop(volumes, used) ==
    IF volumes = <<>> THEN used
    ELSE LET v == Head(volumes) IN
         VolumeLoop(Tail(volumes),
                    IF IsSome(v.secret) /\ TruthyName(Val(v.secret).secret_name)
                    THEN used \cup {Val(v.secret).secret_name}
                    ELSE used)

RECURSIVE ContainerLoop(_, _)
ContainerLoop(containers, used) ==
    IF containers = <<>> THEN used
    ELSE ContainerLoop(Tail(containers),
                       used \cup GetUsedSecretsInContainer(Head(containers)))

\* containers.copy() raises AttributeError when containers is None;
\* init_containers or [] does not.
GetUsedSecretsInPodSpec(pod) ==
    LET u0 == {}
        u1 == IF Truthy(pod.volumes) THEN VolumeLoop(Val(pod.volumes), u0) ELSE u0
    IN  IF ~IsSome(pod.containers) THEN Raise("AttributeError", {})
        ELSE LET containers ==
                     Val(pod.containers) \o
                     (IF Truthy(pod.init_containers) THEN Val(pod.init_containers)
                      ELSE <<>>)
             IN  Ok(ContainerLoop(containers, u1))

----------------------------------------------------------------------------
(* _list_all_secrets *)

\* The items of the secret listing are modelled as the set of their names.
ListAllSecrets(secrets_list) ==
    IF ~IsSome(secrets_list.items) \/ Val(secrets_list.items) = {} THEN {}
    ELSE Val(secrets_list.items)

----------------------------------------------------------------------------
(* _get_all_pod_specs *)

\* The five listing calls.  api holds what the cluster would answer for each
\* kind of object of the namespace.
ListDeployments(api) == api.deployments

\* statefulsets_list is assigned from list_namespaced_deployment.
ListStatefulSets(api) == api.deployments

\* As ListDaemonSets, with the replica sets asked for in their place.
ListDaemonSetsAsReplicaSets(api) == api.replicasets

ListDaemonSets(api) == api.daemonsets
ListPods(api) == api.pods
ListReplicaSets(api) == api.replicasets

\* As ControllerLoop, with the loop left at the first controller it skips.
RECURSIVE ControllerLoopBreaks(_, _)
ControllerLoopBreaks(controllers, pod_specs) ==
    IF controllers = <<>> THEN Ok(pod_specs)
    ELSE LET deployment == Head(controllers) IN
         IF ~IsSome(deployment.spec) THEN Raise("AttributeError", pod_specs)
         ELSE LET template == Val(deployment.spec).template IN
              IF IsSome(template) /\ IsSome(Val(template).spec)
              THEN ControllerLoopBreaks(Tail(controllers),
                                        Append(pod_specs, Val(Val(template).spec)))
              ELSE Ok(pod_specs)

\* deployment.spec.template raises AttributeError when spec is None.
RECURSIVE ControllerLoop(_, _)
ControllerLoop(controllers, pod_specs) ==
    IF controllers = <<>> THEN Ok(pod_specs)
    ELSE LET deployment == Head(controllers) IN
         IF ~IsSome(deployment.spec) THEN Raise("AttributeError", pod_specs)
         ELSE LET template == Val(deployment.spec).template IN
              ControllerLoop(Tail(controllers),
                             IF IsSome(template) /\ IsSome(Val(template).spec)
                             THEN Append(pod_specs, Val(Val(template).spec))
                             ELSE pod_specs)

RECURSIVE PodLoop(_, _)
PodLoop(pods, pod_specs) ==
    IF pods = <<>> THEN pod_specs
    ELSE LET pod == Head(pods) IN
         PodLoop(Tail(pods),
                 IF IsSome(pod.spec) THEN Append(pod_specs, Val(pod.spec))
                 ELSE pod_specs)

\* list + None and iterating None raise TypeError.
CollectPodSpecs(deployments_list, statefulsets_list, daemonsets_list, pods_list, replicasets_list) ==
    IF \/ ~IsSome(deployments_list.items) \/ ~IsSome(statefulsets_list.items)
       \/ ~IsSome(daemonsets_list.items) \/ ~IsSome(replicasets_list.items)
    THEN Raise("TypeError", <<>>)
    ELSE LET r == ControllerLoop(Val(deployments_list.items)
                                 \o Val(statefulsets_list.items)
                                 \o Val(daemonsets_list.items)
                                 \o Val(replicasets_list.items), <<>>)
         IN  IF r.raised THEN r
             ELSE IF ~IsSome(pods_list.items) THEN Raise("TypeError", r.value)
             ELSE Ok(PodLoop(Val(pods_list.items), r.value))

GetAllPodSpecs(api) ==
    CollectPodSpecs(ListDeployments(api), ListStatefulSets(api),
                    ListDaemonSets(api), ListPods(api), ListReplicaSets(api))

----------------------------------------------------------------------------
(* list_unused_secrets_in_namespace *)

\* As FreshUsedSet, with the accumulator kept from the previous call.
StaleUsedSet == all_used_secrets

\* all_used_secrets = set()
FreshUsedSet == {}

\* As UsedLoop, with the accumulator assigned instead of updated.
RECURSIVE UsedLoopLast(_, _)
UsedLoopLast(pod_specs, used) ==
    IF pod_specs = <<>> THEN Ok(used)
    ELSE LET r == GetUsedSecretsInPodSpec(Head(pod_specs)) IN
         IF r.raised THEN Raise(r.error, used)
         ELSE UsedLoopLast(Tail(pod_specs), r.value)

RECURSIVE UsedLoop(_, _)
UsedLoop(pod_specs, used) ==
    IF pod_specs = <<>> THEN Ok(used)
    ELSE LET r == GetUsedSecretsInPodSpec(Head(pod_specs)) IN
         IF r.raised THEN Raise(r.error, used)
         ELSE UsedLoop(Tail(pod_specs), used \cup r.value)

\* As IsSystemSecret, without the release-metadata prefix.
IsSystemSecretNoHelm(secret) ==
    \/ StartsWith(secret, "default-token-")
    \/ StartsWith(secret, "kubernetes.io/service-account")

\* As IsSystemSecret, with the first prefix cut short by its last character.
IsSystemSecretLoose(secret) ==
    \/ StartsWith(secret, "default-token")
    \/ StartsWith(secret, "kubernetes.io/service-account")
    \/ StartsWith(secret, "sh.helm.release.v1")

IsSystemSecret(secret) ==
    \/ StartsWith(secret, "default-token-")
    \/ StartsWith(secret, "kubernetes.io/service-account")
    \/ StartsWith(secret, "sh.helm.release.v1")

FinalUnusedSecrets(unused_secrets) ==
    {secret \in unused_secrets : ~IsSystemSecret(secret)}

\* As UnusedSecrets, with the operands of the difference exchanged.
UnusedSecretsSwapped(secrets, used) == used \ secrets

\* unused_secrets = secrets - all_used_secrets
UnusedSecrets(secrets, used) == secrets \ used

\* raised: the call raised; used: all_used_secrets when the call ended;
\* value: the returned set.
ResolveUnused(secrets, pod_specs) ==
    LET u == UsedLoop(pod_specs, FreshUsedSet) IN
    IF u.raised THEN [raised |-> TRUE, error |-> u.error, used |-> u.value, value |-> {}]
    ELSE [raised |-> FALSE, error |-> "", used |-> u.value,
          value |-> FinalUnusedSecrets(UnusedSecrets(secrets, u.value))]

ListUnusedSecretsInNamespace(api) ==
    LET secrets == ListAllSecrets(api.secrets)
        p == GetAllPodSpecs(api)
    IN  IF p.raised
        THEN [raised |-> TRUE, error |-> p.error, used |-> FreshUsedSet, value |-> {}]
        ELSE ResolveUnused(secrets, p.value)

----------------------------------------------------------------------------
(* The objects the cluster can hold *)

MaxSecrets == 2      \* secrets in one namespace
MaxWorkloads == 2    \* workload objects in one namespace
MaxNamespaces == 2   \* namespaces in the cluster

SeqsUpTo(S, n) == UNION {[1..k -> S] : k \in 0..n}
SubsetsUpTo(S, n) == {T \in SUBSET S : Cardinality(T) <= n}

\* The namespaces of the cluster, in the order the API lists them.
NamespaceNames == <<"default", "kube-system", "kube-public">>
NamespaceLists(max) == {SubSeq(NamespaceNames, 1, n) : n \in 0..max}

\* Names of the secrets a namespace can hold: a plain one, one for each
\* reserved prefix, and one that misses a reserved prefix by its last character.
SecretNames ==
    {"api-key", "default-token", "default-token-abc123",
     "kubernetes.io/service-account", "sh.helm.release.v1.app.v1"}

ControllerKinds == {"deployment", "statefulset", "daemonset", "replicaset"}
ListingKinds == ControllerKinds \cup {"pod", "secret"}

NoContainer == [env |-> None, env_from |-> None, volume_mounts |-> None]
EmptyPodSpec == [volumes |-> None, containers |-> Some(<<>>), init_containers |-> None]

\* A pod spec with one volume backed by secret n.
VolumePodSpec(n) ==
    [EmptyPodSpec EXCEPT !.volumes = Some(<<[secret |-> Some([secret_name |-> n])]>>)]
\* A pod spec with one container importing secret n with envFrom.
EnvFromPodSpec(n) ==
    [EmptyPodSpec EXCEPT !.containers =
        Some(<<[NoContainer EXCEPT !.env_from = Some(<<[secret_ref |-> Some([name |-> n])]>>)]>>)]
\* A pod spec without its containers list.
NoContainersPodSpec == [EmptyPodSpec EXCEPT !.containers = None]

WorkloadPodSpecs ==
    {VolumePodSpec("api-key"), EnvFromPodSpec("default-token-abc123"),
     NoContainersPodSpec}

Controller(pod_spec) == [spec |-> Some([template |-> Some([spec |-> Some(pod_spec)])])]
Controllers ==
    {[spec |-> None],
     [spec |-> Some([template |-> None])],
     [spec |-> Some([template |-> Some([spec |-> None])])]}
    \cup {Controller(p) : p \in WorkloadPodSpecs}
Pods == {[spec |-> None]} \cup {[spec |-> Some(p)] : p \in WorkloadPodSpecs}

Workloads ==
    {[kind |-> k, obj |-> c] : k \in ControllerKinds, c \in Controllers}
    \cup {[kind |-> "pod", obj |-> p] : p \in Pods}

\* The listings whose items come back as None instead of [] when empty.
NilItems == {{}, {"secret"}, ListingKinds}

ItemsOfKind(ws, k) ==
    LET f == SelectSeq(ws, LAMBDA w : w.kind = k)
    IN  [i \in 1..Len(f) |-> f[i].obj]

Listing(kind, items, empty, nil) ==
    [items |-> IF items = empty /\ kind \in nil THEN None ELSE Some(items)]

\* What the API answers for a namespace holding secrets s and workloads ws.
Api(s, ws, nil) ==
    [secrets |-> Listing("secret", s, {}, nil),
     deployments |-> Listing("deployment", ItemsOfKind(ws, "deployment"), <<>>, nil),
     statefulsets |-> Listing("statefulset", ItemsOfKind(ws, "statefulset"), <<>>, nil),
     daemonsets |-> Listing("daemonset", ItemsOfKind(ws, "daemonset"), <<>>, nil),
     pods |-> Listing("pod", ItemsOfKind(ws, "pod"), <<>>, nil),
     replicasets |-> Listing("replicaset", ItemsOfKind(ws, "replicaset"), <<>>, nil)]

NoApi == Api({}, <<>>, {})

\* Namespaces whose workloads are all well formed: each has a pod template with
\* one volume backed by a secret.
WorkloadSecretNames == {"api-key", "default-token-abc123"}
WellFormedWorkloads ==
    {[kind |-> k, obj |-> Controller(VolumePodSpec(n))] :
        k \in ControllerKinds, n \in WorkloadSecretNames}
    \cup {[kind |-> "pod", obj |-> [spec |-> Some(VolumePodSpec(n))]] : n \in WorkloadSecretNames}

Clusters(ms, mw) ==
    {[secrets |-> s, workloads |-> ws] :
        s \in SubsetsUpTo(WorkloadSecretNames, ms), ws \in SeqsUpTo(WellFormedWorkloads, mw)}

\* What the API answers for the namespace as it is now.
ApiOf(c) == Api(c.secrets, c.workloads, {})

----------------------------------------------------------------------------
(* main *)

NoCluster == [secrets |-> {}, workloads |-> <<>>]
NothingFetched ==
    [secrets_list |-> [items |-> None], deployments_list |-> [items |-> None],
     statefulsets_list |-> [items |-> None], daemonsets_list |-> [items |-> None],
     pods_list |-> [items |-> None], replicasets_list |-> [items |-> None]]
NoRefsAtCall ==
    [list_deployments |-> {}, list_statefulsets |-> {}, list_daemonsets |-> {},
     list_pods |-> {}, list_replicasets |-> {}]

MainIdle ==
    /\ namespaces = <<>>
    /\ idx = 0
    /\ listings = NoApi
    /\ printed = <<>>
    /\ used_log = <<>>
ExtractIdle ==
    /\ pod_template = EmptyPodSpec
    /\ used_secrets = Ok({})
LiveIdle ==
    /\ cluster = NoCluster
    /\ fetched = NothingFetched
    /\ refs_at_call = NoRefsAtCall
    /\ always_referenced = {}
    /\ edits = 0

Init ==
    /\ pc = "start"
    /\ all_used_secrets = {}
    /\ main_secrets = {}
    /\ MainIdle
    /\ ExtractIdle
    /\ LiveIdle

\* namespaces = k8s.list_all_namespaces()
ListAllNamespaces ==
    /\ pc = "start"
    /\ \E l \in NamespaceLists(MaxNamespaces) : namespaces' = l
    /\ pc' = "loop"
    /\ UNCHANGED <<idx, listings, all_used_secrets, main_secrets, printed, used_log>>
    /\ UNCHANGED <<extractVars, liveVars>>

\* The call list_unused_secrets_in_namespace(namespace) on what the API answers
\* for the namespace: it returns a set or raises.
CallOn(api) ==
    LET r == ListUnusedSecretsInNamespace(api) IN
    /\ listings' = api
    /\ all_used_secrets' = r.used
    /\ main_secrets' = r.value
    /\ pc' = IF r.raised THEN "raised" ELSE "scanned"

\* secrets = k8s.list_unused_secrets_in_namespace(namespace).  An exception of
\* the call ends the program.
ScanNamespace ==
    /\ pc = "loop"
    /\ idx < Len(namespaces)
    /\ \E c \in Clusters(MaxSecrets, MaxWorkloads) : CallOn(ApiOf(c))
    /\ UNCHANGED <<namespaces, idx, printed, used_log, extractVars, liveVars>>

\* The namespace's lines are printed and the loop moves on; the answers of the
\* API for the namespace are no longer held.
PrintNamespace ==
    /\ pc = "scanned"
    /\ printed' = Append(printed, [namespace |-> namespaces[idx + 1],
                                   secrets |-> main_secrets])
    /\ used_log' = Append(used_log, all_used_secrets)
    /\ listings' = NoApi
    /\ idx' = idx + 1
    /\ pc' = "loop"
    /\ UNCHANGED <<namespaces, all_used_secrets, main_secrets, extractVars, liveVars>>

Finish ==
    /\ pc = "loop"
    /\ idx = Len(namespaces)
    /\ pc' = "done"
    /\ UNCHANGED <<all_used_secrets, main_secrets, mainVars, extractVars, liveVars>>

Next == ListAllNamespaces \/ ScanNamespace \/ PrintNamespace \/ Finish

Spec == Init /\ [][Next]_vars

----------------------------------------------------------------------------
(* list_unused_secrets_in_namespace on its own *)

ScanInit ==
    /\ pc = "call"
    /\ all_used_secrets = {}
    /\ main_secrets = {}
    /\ MainIdle
    /\ ExtractIdle
    /\ LiveIdle

ListUnusedSecretsCall ==
    /\ pc = "call"
    /\ \E s \in SubsetsUpTo(SecretNames, MaxSecrets),
          ws \in SeqsUpTo(Workloads, MaxWorkloads),
          nil \in NilItems : CallOn(Api(s, ws, nil))
    /\ UNCHANGED <<namespaces, idx, printed, used_log, extractVars, liveVars>>

ScanNext == ListUnusedSecretsCall

ScanSpec == ScanInit /\ [][ScanNext]_vars

----------------------------------------------------------------------------
(* _get_used_secrets_in_pod_spec on its own *)

MaxSize == 3   \* additions that make a pod template out of the blank one

\* The names a pod template can mention; the empty name is an absent one.
RefNames == {"api-key", "cfg-secret"}
MountNames == RefNames \cup {"data"}

EnvVars ==
    {[value_from |-> None], [value_from |-> Some([secret_key_ref |-> None])]}
    \cup {[value_from |-> Some([secret_key_ref |-> Some([name |-> n])])] :
             n \in RefNames \cup {NoName}}
EnvFromSources ==
    {[secret_ref |-> None]}
    \cup {[secret_ref |-> Some([name |-> n])] : n \in RefNames \cup {NoName}}
VolumeMounts == {[name |-> n] : n \in MountNames}
Volumes ==
    {[secret |-> None]}
    \cup {[secret |-> Some([secret_name |-> n])] : n \in RefNames \cup {NoName}}

\* The pod template and the container with every list absent.
BlankPodSpec == [volumes |-> None, containers |-> None, init_containers |-> None]

\* An optional list after one addition: an absent list becomes the empty list
\* or a list of one entry, a present list gets one more entry.
Grow(l, S) ==
    IF IsSome(l) THEN {Some(Append(Val(l), x)) : x \in S}
    ELSE {Some(<<>>)} \cup {Some(<<x>>) : x \in S}

GrowContainer(c) ==
    {[c EXCEPT !.env = e] : e \in Grow(c.env, EnvVars)}
    \cup {[c EXCEPT !.env_from = f] : f \in Grow(c.env_from, EnvFromSources)}
    \cup {[c EXCEPT !.volume_mounts = m] : m \in Grow(c.volume_mounts, VolumeMounts)}

\* An optional list of containers after one addition to one of its containers.
GrowIn(l) ==
    IF IsSome(l)
    THEN UNION {{Some([Val(l) EXCEPT ![i] = c]) : c \in GrowContainer(Val(l)[i])} :
                   i \in DOMAIN Val(l)}
    ELSE {}

GrowPodSpec(p) ==
    {[p EXCEPT !.volumes = v] : v \in Grow(p.volumes, Volumes)}
    \cup {[p EXCEPT !.containers = c] :
             c \in Grow(p.containers, {NoContainer}) \cup GrowIn(p.containers)}
    \cup {[p EXCEPT !.init_containers = c] :
             c \in Grow(p.init_containers, {NoContainer}) \cup GrowIn(p.init_containers)}

RECURSIVE PodSpecsOfSize(_)
PodSpecsOfSize(n) ==
    IF n = 0 THEN {BlankPodSpec}
    ELSE LET S == PodSpecsOfSize(n - 1) IN S \cup UNION {GrowPodSpec(p) : p \in S}

ExtractInit ==
    /\ pc = "extract"
    /\ pod_template \in PodSpecsOfSize(MaxSize)
    /\ used_secrets = Ok({})
    /\ all_used_secrets = {}
    /\ main_secrets = {}
    /\ MainIdle
    /\ LiveIdle

ExtractUsedSecrets ==
    /\ pc = "extract"
    /\ used_secrets' = GetUsedSecretsInPodSpec(pod_template)
    /\ pc' = "extracted"
    /\ UNCHANGED <<all_used_secrets, main_secrets, pod_template, mainVars, liveVars>>

ExtractNext == ExtractUsedSecrets

ExtractSpec == ExtractInit /\ [][ExtractNext]_vars

----------------------------------------------------------------------------
(* What the properties speak of, stated on the objects themselves *)

Range(l) == {l[i] : i \in DOMAIN l}
ItemsOf(listing) == IF IsSome(listing.items) THEN Val(listing.items) ELSE <<>>

\* The secret names listed in the namespace.
ListedSecrets(api) == IF IsSome(api.secrets.items) THEN Val(api.secrets.items) ELSE {}

ReservedPrefixes ==
    {"default-token-", "kubernetes.io/service-account", "sh.helm.release.v1"}
HasReservedPrefix(n) ==
    \E p \in ReservedPrefixes : \E k \in 0..Len(n) : SubSeq(n, 1, k) = p

\* The secret references of a pod template: the non-empty secret names of its
\* volumes, the names of the secret-key references of the env entries and the
\* non-empty names of the envFrom secret references of its containers and init
\* containers.
VolumeRefs(pod) ==
    {Val(v.secret).secret_name :
        v \in {w \in Range(IF IsSome(pod.volumes) THEN Val(pod.volumes) ELSE <<>>) :
                  IsSome(w.secret) /\ Val(w.secret).secret_name # NoName}}
EnvRefs(c) ==
    {Val(Val(e.value_from).secret_key_ref).name :
        e \in {w \in Range(IF IsSome(c.env) THEN Val(c.env) ELSE <<>>) :
                  IsSome(w.value_from) /\ IsSome(Val(w.value_from).secret_key_ref)}}
EnvFromRefs(c) ==
    {Val(e.secret_ref).name :
        e \in {w \in Range(IF IsSome(c.env_from) THEN Val(c.env_from) ELSE <<>>) :
                  IsSome(w.secret_ref) /\ Val(w.secret_ref).name # NoName}}
AllContainers(pod) ==
    Range(IF IsSome(pod.containers) THEN Val(pod.containers) ELSE <<>>)
    \cup Range(IF IsSome(pod.init_containers) THEN Val(pod.init_containers) ELSE <<>>)
SecretRefs(pod) ==
    VolumeRefs(pod) \cup UNION {EnvRefs(c) \cup EnvFromRefs(c) : c \in AllContainers(pod)}

\* The pod template with the volume mounts of all its containers removed.
WithoutMounts(l) ==
    IF IsSome(l)
    THEN Some([i \in 1..Len(Val(l)) |-> [Val(l)[i] EXCEPT !.volume_mounts = None]])
    ELSE None
WithoutVolumeMounts(pod) ==
    [pod EXCEPT !.containers = WithoutMounts(pod.containers),
                !.init_containers = WithoutMounts(pod.init_containers)]

WellFormed(controller) ==
    /\ IsSome(controller.spec)
    /\ IsSome(Val(controller.spec).template)
    /\ IsSome(Val(Val(controller.spec).template).spec)
TemplateOf(controller) == Val(Val(Val(controller.spec).template).spec)

\* The pod templates of the well-formed controllers of a listing, in its order.
ControllerTemplates(listing) ==
    LET f == SelectSeq(ItemsOf(listing), WellFormed)
    IN  [i \in 1..Len(f) |-> TemplateOf(f[i])]
PodTemplates(listing) ==
    LET f == SelectSeq(ItemsOf(listing), LAMBDA pod : IsSome(pod.spec))
    IN  [i \in 1..Len(f) |-> Val(f[i].spec)]

\* The pod templates of the listings handed to the collector.
HandedTemplates(api) ==
    ControllerTemplates(ListDeployments(api)) \o ControllerTemplates(ListStatefulSets(api))
    \o ControllerTemplates(ListDaemonSets(api)) \o ControllerTemplates(ListReplicaSets(api))
    \o PodTemplates(ListPods(api))

\* The names referenced by the pod templates the scan of the namespace reads.
ScannedRefs(api) == UNION {SecretRefs(t) : t \in Range(HandedTemplates(api))}

\* The names referenced by the well-formed StatefulSets of the namespace.
StatefulSetRefs(api) ==
    UNION {SecretRefs(t) : t \in Range(ControllerTemplates(api.statefulsets))}

\* No listing lacks its items, no controller its spec, no pod template its
\* containers list.
ItemsPresent(api) ==
    /\ IsSome(api.deployments.items) /\ IsSome(api.statefulsets.items)
    /\ IsSome(api.daemonsets.items) /\ IsSome(api.replicasets.items)
    /\ IsSome(api.pods.items)
SpecsPresent(api) ==
    \A k \in {"deployments", "daemonsets", "replicasets"} :
        \A c \in Range(ItemsOf(api[k])) : IsSome(c.spec)
ContainersPresent(api) ==
    \A t \in Range(HandedTemplates(api)) : IsSome(t.containers)

Scanned == pc = "scanned"

----------------------------------------------------------------------------
(* Properties of the scan of a namespace, under ScanSpec *)

\* C1: the set returned for a namespace is a subset of the secret names listed
\* in it and is disjoint from the used-secret set accumulated by the scan.
C1_ResultWithinListedAndUnused ==
    Scanned => /\ main_secrets \subseteq ListedSecrets(listings)
               /\ main_secrets \cap all_used_secrets = {}
C1_Witness ==
    /\ Scanned
    /\ main_secrets # {}
    /\ ListedSecrets(listings) \cap all_used_secrets # {}
    /\ all_used_secrets \ ListedSecrets(listings) # {}

\* C2: a secret referenced by the pod template of a well-formed StatefulSet
\* of the namespace is counted as used and is not in the returned set.
C2_StatefulSetSecretsAreUsed ==
    Scanned => /\ StatefulSetRefs(listings) \subseteq all_used_secrets
               /\ main_secrets \cap StatefulSetRefs(listings) = {}

\* C3: no name that starts with a reserved prefix is in the returned set,
\* whether or not a workload references it.
C3_ReservedNeverReported ==
    Scanned => \A n \in main_secrets : ~HasReservedPrefix(n)
C3_Witness ==
    /\ Scanned
    /\ \E n \in ListedSecrets(listings) \ all_used_secrets : HasReservedPrefix(n)
    /\ \E n \in ListedSecrets(listings) \cap all_used_secrets : HasReservedPrefix(n)

\* C4: the returned set is exactly the listed names that no scanned pod
\* template references and that start with no reserved prefix; a namespace
\* with no secret and no workload yields the empty set and no exception.
C4_ResultExact ==
    /\ Scanned =>
         main_secrets = {n \in ListedSecrets(listings) :
                            n \notin ScannedRefs(listings) /\ ~HasReservedPrefix(n)}
    /\ (/\ pc \in {"scanned", "raised"}
        /\ ListedSecrets(listings) = {}
        /\ ItemsPresent(listings)
        /\ \A k \in {"deployments", "statefulsets", "daemonsets", "replicasets", "pods"} :
              Val(listings[k].items) = <<>>)
       => Scanned /\ main_secrets = {}
C4_Witness ==
    /\ Scanned
    /\ ListedSecrets(listings) = {"default-token", "default-token-abc123"}
    /\ ScannedRefs(listings) = {}
    /\ main_secrets = {"default-token"}

\* C6, for the listings that lack nothing but the spec, the template or the
\* template's spec of a controller: the scan returns and does not raise.
C6_AbsentSpecNeverRaises ==
    (ItemsPresent(listings) /\ ContainersPresent(listings)) => pc # "raised"

\* C7: a controller whose template lacks its spec and a pod that lacks its
\* spec are skipped without error: the collected list holds the pod templates
\* of the well-formed objects of the listings handed to the collector, in
\* order, and nothing else, and the used-secret set holds their references.
C7_MalformedSkipped ==
    (/\ pc \in {"scanned", "raised"}
     /\ ItemsPresent(listings)
     /\ SpecsPresent(listings))
    => /\ GetAllPodSpecs(listings) = Ok(HandedTemplates(listings))
       /\ Scanned => all_used_secrets = ScannedRefs(listings)
C7_Witness ==
    /\ Scanned
    /\ \E k \in {"deployments", "daemonsets", "replicasets"} :
          /\ Len(ItemsOf(listings[k])) = 2
          /\ ~WellFormed(ItemsOf(listings[k])[1])
          /\ WellFormed(ItemsOf(listings[k])[2])
          /\ SecretRefs(TemplateOf(ItemsOf(listings[k])[2])) # {}
    /\ all_used_secrets # {}

\* C8: the used-secret set and the returned set do not change when the
\* collected pod templates are taken in another order or twice over.
Reorderings(n) == {f \in [1..n -> 1..n] : \A i, j \in 1..n : f[i] = f[j] => i = j}
C8_OrderAndMultiplicity ==
    Scanned =>
      LET t == GetAllPodSpecs(listings).value
          all == ListAllSecrets(listings.secrets)
          same(r) == ~r.raised /\ r.used = all_used_secrets /\ r.value = main_secrets
      IN  /\ \A f \in Reorderings(Len(t)) :
                same(ResolveUnused(all, [i \in 1..Len(t) |-> t[f[i]]]))
          /\ same(ResolveUnused(all, t \o t))
C8_Witness ==
    /\ Scanned
    /\ LET t == GetAllPodSpecs(listings).value
       IN  \E i, j \in DOMAIN t :
              /\ SecretRefs(t[i]) # {} /\ SecretRefs(t[j]) # {}
              /\ SecretRefs(t[i]) # SecretRefs(t[j])
    /\ main_secrets # {}

----------------------------------------------------------------------------
(* Properties of the loop over the namespaces, under Spec *)

\* C9: the used-secret set of a scan holds the references of the scanned
\* namespace alone, and a name used in a namespace scanned earlier is still
\* reported for a later namespace where it is listed and not referenced.
C9_NoCarryOver ==
    Scanned =>
      /\ all_used_secrets = ScannedRefs(listings)
      /\ \A i \in DOMAIN used_log :
            \A n \in (used_log[i] \cap ListedSecrets(listings)) \ ScannedRefs(listings) :
               ~HasReservedPrefix(n) => n \in main_secrets
C9_Witness ==
    /\ Scanned
    /\ idx >= 1
    /\ \E n \in used_log[1] : n \in main_secrets

----------------------------------------------------------------------------
(* Properties of the reference extractor, under ExtractSpec *)

\* C5: the extractor returns exactly the secret references of the pod
\* template, and the volume mounts of its containers do not change the result.
C5_ExtractExact ==
    (pc = "extracted" /\ ~used_secrets.raised)
    => /\ used_secrets.value = SecretRefs(pod_template)
       /\ GetUsedSecretsInPodSpec(WithoutVolumeMounts(pod_template)) = used_secrets
C5_Witness ==
    /\ pc = "extracted"
    /\ ~used_secrets.raised
    /\ used_secrets.value = {"cfg-secret"}
    /\ \E c \in AllContainers(pod_template) :
          /\ IsSome(c.volume_mounts)
          /\ \E m \in Range(Val(c.volume_mounts)) : m.name = "api-key"

----------------------------------------------------------------------------
(* list_unused_secrets_in_namespace, call by call, on a namespace that changes *)

MaxEdits == 2   \* changes made to the namespace while one scan of it runs

\* The names the well-formed workloads of one kind reference now.
RefsOfKind(c, kind) ==
    LET listing == [items |-> Some(ItemsOfKind(c.workloads, kind))]
    IN  UNION {SecretRefs(t) : t \in Range(IF kind = "pod" THEN PodTemplates(listing)
                                           ELSE ControllerTemplates(listing))}
ScannedKinds == {"deployment", "daemonset", "replicaset", "pod"}
RefsOfScannedKinds(c) == UNION {RefsOfKind(c, k) : k \in ScannedKinds}

RemoveAt(l, i) == SubSeq(l, 1, i - 1) \o SubSeq(l, i + 1, Len(l))

LiveInit ==
    /\ pc = "list_secrets"
    /\ cluster \in Clusters(MaxSecrets, MaxWorkloads)
    /\ always_referenced = RefsOfScannedKinds(cluster)
    /\ fetched = NothingFetched
    /\ refs_at_call = NoRefsAtCall
    /\ edits = 0
    /\ all_used_secrets = {}
    /\ main_secrets = {}
    /\ MainIdle
    /\ ExtractIdle

Scanning ==
    pc \in {"list_secrets", "list_deployments", "list_statefulsets", "list_daemonsets",
            "list_pods", "list_replicasets", "resolve"}

\* Another client of the cluster creates a workload in the namespace.
CreateWorkload ==
    /\ Scanning
    /\ edits < MaxEdits
    /\ Len(cluster.workloads) < MaxWorkloads
    /\ \E w \in WellFormedWorkloads :
          cluster' = [cluster EXCEPT !.workloads = Append(@, w)]
    /\ always_referenced' = always_referenced \cap RefsOfScannedKinds(cluster')
    /\ edits' = edits + 1
    /\ UNCHANGED <<pc, all_used_secrets, main_secrets, fetched, refs_at_call,
                   mainVars, extractVars>>

\* Another client of the cluster deletes a workload of the namespace.
DeleteWorkload ==
    /\ Scanning
    /\ edits < MaxEdits
    /\ \E i \in DOMAIN cluster.workloads :
          cluster' = [cluster EXCEPT !.workloads = RemoveAt(@, i)]
    /\ always_referenced' = always_referenced \cap RefsOfScannedKinds(cluster')
    /\ edits' = edits + 1
    /\ UNCHANGED <<pc, all_used_secrets, main_secrets, fetched, refs_at_call,
                   mainVars, extractVars>>

\* secrets = _list_all_secrets(namespace)
ListSecretsCall ==
    /\ pc = "list_secrets"
    /\ fetched' = [fetched EXCEPT !.secrets_list = ApiOf(cluster).secrets]
    /\ pc' = "list_deployments"
    /\ UNCHANGED <<all_used_secrets, main_secrets, cluster, refs_at_call,
                   always_referenced, edits, mainVars, extractVars>>

ListDeploymentsCall ==
    /\ pc = "list_deployments"
    /\ fetched' = [fetched EXCEPT !.deployments_list = ListDeployments(ApiOf(cluster))]
    /\ refs_at_call' = [refs_at_call EXCEPT
                           !.list_deployments = RefsOfKind(cluster, "deployment")]
    /\ pc' = "list_statefulsets"
    /\ UNCHANGED <<all_used_secrets, main_secrets, cluster, always_referenced, edits,
                   mainVars, extractVars>>

\* The second call lists the deployments again.
ListStatefulSetsCall ==
    /\ pc = "list_statefulsets"
    /\ fetched' = [fetched EXCEPT !.statefulsets_list = ListStatefulSets(ApiOf(cluster))]
    /\ refs_at_call' = [refs_at_call EXCEPT
                           !.list_statefulsets = RefsOfKind(cluster, "deployment")]
    /\ pc' = "list_daemonsets"
    /\ UNCHANGED <<all_used_secrets, main_secrets, cluster, always_referenced, edits,
                   mainVars, extractVars>>

ListDaemonSetsCall ==
    /\ pc = "list_daemonsets"
    /\ fetched' = [fetched EXCEPT !.daemonsets_list = ListDaemonSets(ApiOf(cluster))]
    /\ refs_at_call' = [refs_at_call EXCEPT
                           !.list_daemonsets = RefsOfKind(cluster, "daemonset")]
    /\ pc' = "list_pods"
    /\ UNCHANGED <<all_used_secrets, main_secrets, cluster, always_referenced, edits,
                   mainVars, extractVars>>

ListPodsCall ==
    /\ pc = "list_pods"
    /\ fetched' = [fetched EXCEPT !.pods_list = ListPods(ApiOf(cluster))]
    /\ refs_at_call' = [refs_at_call EXCEPT !.list_pods = RefsOfKind(cluster, "pod")]
    /\ pc' = "list_replicasets"
    /\ UNCHANGED <<all_used_secrets, main_secrets, cluster, always_referenced, edits,
                   mainVars, extractVars>>

ListReplicaSetsCall ==
    /\ pc = "list_replicasets"
    /\ fetched' = [fetched EXCEPT !.replicasets_list = ListReplicaSets(ApiOf(cluster))]
    /\ refs_at_call' = [refs_at_call EXCEPT
                           !.list_replicasets = RefsOfKind(cluster, "replicaset")]
    /\ pc' = "resolve"
    /\ UNCHANGED <<all_used_secrets, main_secrets, cluster, always_referenced, edits,
                   mainVars, extractVars>>

\* The pod specs are collected from the fetched listings and the unused
\* secrets resolved; the call returns or raises.
ResolveFetched ==
    /\ pc = "resolve"
    /\ LET p == CollectPodSpecs(fetched.deployments_list, fetched.statefulsets_list,
                                fetched.daemonsets_list, fetched.pods_list,
                                fetched.replicasets_list)
           r == IF p.raised
                THEN [raised |-> TRUE, error |-> p.error, used |-> FreshUsedSet, value |-> {}]
                ELSE ResolveUnused(ListAllSecrets(fetched.secrets_list), p.value)
       IN  /\ all_used_secrets' = r.used
           /\ main_secrets' = r.value
           /\ pc' = IF r.raised THEN "raised" ELSE "scanned"
    /\ UNCHANGED <<mainVars, extractVars, liveVars>>

LiveNext ==
    \/ CreateWorkload \/ DeleteWorkload
    \/ ListSecretsCall \/ ListDeploymentsCall \/ ListStatefulSetsCall
    \/ ListDaemonSetsCall \/ ListPodsCall \/ ListReplicaSetsCall
    \/ ResolveFetched

LiveSpec == LiveInit /\ [][LiveNext]_vars

----------------------------------------------------------------------------
(* Properties of a scan of a changing namespace, under LiveSpec *)

\* C10 as claimed, for the kinds the scan lists: a secret that a Deployment,
\* DaemonSet, ReplicaSet or Pod of the namespace references at every instant of
\* the scan is not in the returned set.
C10_AlwaysReferencedNotReported ==
    Scanned => main_secrets \cap always_referenced = {}

\* C10 as amended: every secret in the returned set was listed in the
\* namespace and, at the instant of each workload listing call, referenced by
\* no well-formed workload of the kind that call lists.
C10_UnreferencedAtEachCall ==
    Scanned =>
      /\ main_secrets \subseteq cluster.secrets
      /\ \A call \in DOMAIN refs_at_call : main_secrets \cap refs_at_call[call] = {}
C10_Witness ==
    /\ Scanned
    /\ edits = MaxEdits
    /\ main_secrets # {}
    /\ main_secrets \cap RefsOfScannedKinds(cluster) # {}
    /\ \E call \in DOMAIN refs_at_call : refs_at_call[call] # {}

====
